---- MODULE Spec2Model ----
(***************************************************************************)
(* Model of radvisor/parser.py: the rAdvisor container-stat log parser     *)
(* (load_file, LogEntry and its field decoders, parse_blkio), the batch    *)
(* driver (main, parse_all) and the interval analyzer (get_ts_deltas,      *)
(* find_deltas, remove_outliers).                                          *)
(*                                                                         *)
(* Strings are modelled by their structure under the two splits the code   *)
(* performs: a string is a sequence (split on ",") of sequences (split on  *)
(* " ") of atomic tokens; None is a separate value.  Python floats are     *)
(* modelled as exact fractions, so floating-point rounding is abstracted.  *)
(***************************************************************************)
EXTENDS Integers, Sequences, FiniteSets, TLC

VARIABLES pc, files, idx, parsed, analyzed, exc, arg, res

vars == <<pc, files, idx, parsed, analyzed, exc, arg, res>>

(***************************************************************************)
(* Bounds of the explored inputs.                                          *)
(***************************************************************************)
MaxFiles == 2
MaxRows == 2
MaxSub == 3
MaxTs == 3
MaxArr == 3

(***************************************************************************)
(* Generic helpers.                                                        *)
(***************************************************************************)
SeqsUpTo(S, n) == UNION {[1..k -> S] : k \in 0..n}

NoExc == "none"

\* F(e), with e evaluated once
Bind(e, F(_)) == CHOOSE r \in {F(x) : x \in {e}} : TRUE

\* the parts of the state a specification does not use
BatchIdle ==
    /\ files = <<>>
    /\ idx = 0
    /\ parsed = <<>>
    /\ analyzed = <<>>
    /\ exc = NoExc

BatchUnchanged == UNCHANGED <<files, idx, parsed, analyzed, exc>>

(***************************************************************************)
(* Interval analyzer: get_ts_deltas / find_deltas.                         *)
(***************************************************************************)
\* float(timestamp) / 1E6 : a float, kept as the exact fraction num/den
NsPerMs == 1000000

ToMs(timestamp) == [num |-> timestamp, den |-> NsPerMs]

\* j - i on two floats of the same denominator
FloatSub(j, i) == [num |-> j.num - i.num, den |-> j.den]

\* zip(a, b): pairs up to the shorter length
Zip(a, b) ==
    LET n == IF Len(a) < Len(b) THEN Len(a) ELSE Len(b)
    IN [k \in 1..n |-> <<a[k], b[k]>>]

\* arr[:-1] and arr[1:]
AllButLast(arr) == SubSeq(arr, 1, Len(arr) - 1)
AllButFirst(arr) == SubSeq(arr, 2, Len(arr))

find_deltas_swapped(arr) ==
    LET z == Zip(AllButLast(arr), AllButFirst(arr))
    IN [k \in 1..Len(z) |-> FloatSub(z[k][1], z[k][2])]

find_deltas(arr) ==
    LET z == Zip(AllButLast(arr), AllButFirst(arr))
    IN [k \in 1..Len(z) |-> FloatSub(z[k][2], z[k][1])]

get_ts_deltas(entries) ==
    find_deltas([k \in 1..Len(entries) |-> ToMs(entries[k])])

TsVals == {0, 500000, 1000000, 3000000, 6000000}

InitDeltas ==
    /\ pc = "deltas_start"
    /\ arg \in SeqsUpTo(TsVals, MaxTs)
    /\ res = <<>>
    /\ BatchIdle

GetTsDeltas ==
    /\ pc = "deltas_start"
    /\ res' = get_ts_deltas(arg)
    /\ pc' = "deltas_done"
    /\ UNCHANGED arg
    /\ BatchUnchanged

NextDeltas == GetTsDeltas

SpecDeltas == InitDeltas /\ [][NextDeltas]_vars

\* a float equals the integer number m of milliseconds
IsMs(f, m) == f.num = m * f.den

\* C5: N timestamps give N-1 deltas (none for N = 0 or 1); the i-th delta
\* is timestamp i+1 minus timestamp i in milliseconds, signed, and the
\* computation never fails; [1e6, 3e6, 6e6] ns gives [2, 3] ms.
Thm_C5 ==
    pc = "deltas_done" =>
        /\ Len(res) = (IF Len(arg) >= 1 THEN Len(arg) - 1 ELSE 0)
        /\ \A i \in 1..Len(res) :
              /\ res[i].den = NsPerMs
              /\ res[i].num = arg[i + 1] - arg[i]
        /\ (arg = <<1000000, 3000000, 6000000>> =>
              /\ Len(res) = 2
              /\ IsMs(res[1], 2)
              /\ IsMs(res[2], 3))

\* a non-monotonic sequence has been analysed and gave a negative delta
Wit_C5 ==
    /\ pc = "deltas_done"
    /\ Len(arg) = 3
    /\ arg[2] < arg[1]
    /\ res[1].num < 0
    /\ res[2].num > 0

(***************************************************************************)
(* Interval analyzer: remove_outliers.                                     *)
(***************************************************************************)
RECURSIVE Insert(_, _)
Insert(s, x) ==
    IF s = <<>> THEN <<x>>
    ELSE IF x <= Head(s) THEN <<x>> \o s
    ELSE <<Head(s)>> \o Insert(Tail(s), x)

RECURSIVE Sort(_)
Sort(s) == IF s = <<>> THEN <<>> ELSE Insert(Sort(Tail(s)), Head(s))

\* np.percentile(arr, q) with the default linear interpolation, as the
\* fraction Percentile(arr, q) / PctDen: the virtual index q/100 * (n-1)
\* falls between two neighbours of the sorted array.
PctDen == 100

Percentile(arr, q) ==
    LET a == Sort(arr)
        n == Len(a)
        lo == (q * (n - 1)) \div PctDen
        r == (q * (n - 1)) % PctDen
        hi == IF lo + 1 < n THEN lo + 1 ELSE lo
    IN PctDen * a[lo + 1] + r * (a[hi + 1] - a[lo + 1])

\* a >= q25 - limit and a <= q75 + limit, with limit = z * (q75 - q25) and
\* z the fraction z.num / z.den; both sides scaled by PctDen * z.den
KeepStrict(a, q25, q75, z) ==
    /\ a * PctDen * z.den > q25 * z.den - z.num * (q75 - q25)
    /\ a * PctDen * z.den <= q75 * z.den + z.num * (q75 - q25)

Keep(a, q25, q75, z) ==
    /\ a * PctDen * z.den >= q25 * z.den - z.num * (q75 - q25)
    /\ a * PctDen * z.den <= q75 * z.den + z.num * (q75 - q25)

RECURSIVE Comprehend(_, _, _, _)
Comprehend(arr, q25, q75, z) ==
    IF arr = <<>> THEN <<>>
    ELSE (IF Keep(Head(arr), q25, q75, z) THEN <<Head(arr)>> ELSE <<>>)
         \o Comprehend(Tail(arr), q25, q75, z)

remove_outliers(arr, z) ==
    Comprehend(arr, Percentile(arr, 25), Percentile(arr, 75), z)

ArrVals == {1, 2, 4, 100}
ZVals == {[num |-> 3, den |-> 2], [num |-> 1, den |-> 1], [num |-> 0, den |-> 1]}
ExampleArr == <<1, 2, 2, 3, 3, 3, 4, 4, 100>>
ZDefault == [num |-> 3, den |-> 2]

InitOutliers ==
    /\ pc = "outliers_start"
    /\ \E a \in (SeqsUpTo(ArrVals, MaxArr) \ {<<>>}) \cup {ExampleArr} :
       \E z \in ZVals : arg = [arr |-> a, z |-> z]
    /\ res = <<>>
    /\ BatchIdle

RemoveOutliers ==
    /\ pc = "outliers_start"
    /\ res' = remove_outliers(arg.arr, arg.z)
    /\ pc' = "outliers_done"
    /\ UNCHANGED arg
    /\ BatchUnchanged

NextOutliers == RemoveOutliers

SpecOutliers == InitOutliers /\ [][NextOutliers]_vars

\* the k-th smallest value of arr, by counting
OrderStat(arr, k) ==
    CHOOSE v \in {arr[i] : i \in 1..Len(arr)} :
        /\ Cardinality({i \in 1..Len(arr) : arr[i] < v}) < k
        /\ k <= Cardinality({i \in 1..Len(arr) : arr[i] <= v})

\* 4 * (the q-th percentile), q = 25 or 75, interpolated linearly between
\* the order statistics around position q/100 * (n-1)
Quartile4(arr, q) ==
    LET m == (q \div 25) * (Len(arr) - 1)
        lo == m \div 4
        w == m % 4
    IN IF w = 0 THEN 4 * OrderStat(arr, lo + 1)
       ELSE (4 - w) * OrderStat(arr, lo + 1) + w * OrderStat(arr, lo + 2)

\* a lies in [q25 - z*iqr, q75 + z*iqr]
InFence(arr, z, a) ==
    LET q1 == Quartile4(arr, 25)
        q3 == Quartile4(arr, 75)
    IN /\ 4 * z.den * a >= z.den * q1 - z.num * (q3 - q1)
       /\ 4 * z.den * a <= z.den * q3 + z.num * (q3 - q1)

\* the positions of arr whose element lies within the fence
FencePos(arr, z) == {i \in 1..Len(arr) : InFence(arr, z, arr[i])}

\* C8: remove_outliers returns exactly the elements of arr within
\* [q25 - z*iqr, q75 + z*iqr], in their original order and multiplicity;
\* for [1,2,2,3,3,3,4,4,100] and z = 1.5 only the value 100 is removed.
Thm_C8 ==
    pc = "outliers_done" =>
        LET P == FencePos(arg.arr, arg.z)
        IN /\ Len(res) = Cardinality(P)
           /\ \A i \in P :
                 res[Cardinality({j \in P : j <= i})] = arg.arr[i]
           /\ (arg.arr = ExampleArr /\ arg.z = ZDefault =>
                 res = <<1, 2, 2, 3, 3, 3, 4, 4>>)

\* the example array has been filtered: 100 is gone, the rest is retained
Wit_C8 ==
    /\ pc = "outliers_done"
    /\ arg.arr = ExampleArr
    /\ arg.z = ZDefault
    /\ Len(res) = 8
    /\ \A i \in 1..Len(res) : res[i] # 100

(***************************************************************************)
(* Python values.  A string is the sequence, over its split on ",", of the *)
(* sequences of tokens of each part's split on " "; a token holds neither  *)
(* a comma nor a space and may be empty (two adjacent spaces).  So "" is   *)
(* <<<<"">>>> and "8:0 Read 5,Total 5" is                                  *)
(* <<<<"8:0","Read","5">>, <<"Total","5">>>>.                              *)
(***************************************************************************)
None == [isNone |-> TRUE, subs |-> <<>>]
Str(subs) == [isNone |-> FALSE, subs |-> subs]
Word(tok) == Str(<<<<tok>>>>)
EmptyStr == Word("")

\* the outcome of a call: a value, or the exception it raised
Ok(v) == [exc |-> NoExc, val |-> v]
Raise(e) == [exc |-> e, val |-> 0]

\* the decimal numerals among the tokens, and their values
Numerals == {"0", "1", "2", "5", "100", "128", "200", "300"}

NumVal(tok) ==
    CASE tok = "0" -> 0
      [] tok = "1" -> 1
      [] tok = "2" -> 2
      [] tok = "5" -> 5
      [] tok = "100" -> 100
      [] tok = "128" -> 128
      [] tok = "200" -> 200
      [] tok = "300" -> 300

\* the tokens of the alphabet that contain the substring "Total"
TotalToks == {"Total", "SubTotal"}

\* str.strip() on one comma-free part: leading and trailing spaces go, that
\* is the empty tokens at both ends; the empty string is left as <<"">>
RECURSIVE LStrip(_)
LStrip(part) ==
    IF Len(part) > 1 /\ Head(part) = "" THEN LStrip(Tail(part)) ELSE part

RECURSIVE RStrip(_)
RStrip(part) ==
    IF Len(part) > 1 /\ part[Len(part)] = ""
    THEN RStrip(SubSeq(part, 1, Len(part) - 1))
    ELSE part

Strip(part) == RStrip(LStrip(part))

\* int(val): surrounding whitespace is accepted, anything but one numeral
\* raises ValueError
PyIntStripped(n, s) ==
    IF n = 1 /\ Len(s) = 1 /\ s[1] \in Numerals
    THEN Ok(NumVal(s[1]))
    ELSE Raise("ValueError")

PyInt(val) ==
    Bind(Strip(val.subs[1]), LAMBDA s : PyIntStripped(Len(val.subs), s))

in_t(val) ==
    IF ~val.isNone /\ val # EmptyStr THEN PyInt(val) ELSE Ok(0)

(***************************************************************************)
(* Rows.  csv.DictReader pairs the field names read from the first line    *)
(* with the fields of a later line; a field the line is too short for is   *)
(* None (restval).  row[key] raises KeyError when no field name is key.    *)
(***************************************************************************)
CpuCols == <<"cpu.usage.total", "cpu.usage.system", "cpu.usage.user",
             "cpu.usage.percpu", "cpu.stat.system", "cpu.stat.user",
             "cpu.throttling.periods", "cpu.throttling.throttled.count",
             "cpu.throttling.throttled.time">>

MemoryCols == <<"memory.usage.current", "memory.usage.max",
                "memory.limit.hard", "memory.limit.soft", "memory.failcnt",
                "memory.hierarchical_limit.memory",
                "memory.hierarchical_limit.memoryswap", "memory.cache",
                "memory.rss.all", "memory.rss.huge", "memory.mapped",
                "memory.swap", "memory.paged.in", "memory.paged.out",
                "memory.fault.total", "memory.fault.major",
                "memory.anon.inactive", "memory.anon.active",
                "memory.file.inactive", "memory.file.active",
                "memory.unevictable">>

BlkioCols == <<"blkio.service.bytes", "blkio.service.ios",
               "blkio.service.time", "blkio.queued", "blkio.wait",
               "blkio.merged", "blkio.time", "blkio.sectors">>

PidsCols == <<"pids.current", "pids.max">>

Cols == <<"read">> \o CpuCols \o MemoryCols \o BlkioCols \o PidsCols

IsRow(x) == "fieldnames" \in DOMAIN x

DictRow(fieldnames, fields) == [fieldnames |-> fieldnames, fields |-> fields]

\* row[key]
Get(row, key) ==
    LET hits == {i \in 1..Len(row.fieldnames) : row.fieldnames[i] = Word(key)}
        i == CHOOSE h \in hits : \A g \in hits : g <= h
    IN IF hits = {} THEN Raise("KeyError")
       ELSE IF i <= Len(row.fields) THEN Ok(row.fields[i])
       ELSE Ok(None)

\* in_t(row[key])
in_t_at(row, key) ==
    Bind(Get(row, key), LAMBDA g : IF g.exc # NoExc THEN g ELSE in_t(g.val))

\* the outcome of statements evaluated in order, given as a sequence of
\* outcomes: the first exception raised, or the sequence of the values
FirstRaised(outs, bad) ==
    IF bad = {} THEN Ok([i \in 1..Len(outs) |-> outs[i].val])
    ELSE Raise(outs[CHOOSE b \in bad : \A c \in bad : b <= c].exc)

InOrderOf(outs) ==
    Bind({i \in 1..Len(outs) : outs[i].exc # NoExc},
         LAMBDA bad : FirstRaised(outs, bad))

InOrder(outs) == Bind(outs, InOrderOf)

(***************************************************************************)
(* The module namespace.  The names bound once the module has been         *)
(* executed; a later definition of a name replaces the earlier one, so     *)
(* BlkioEntry is the class of lines 49-63 (the one with the cpu fields),   *)
(* the class of lines 34-45 is unreachable, and no statement binds         *)
(* CpuUsage.                                                               *)
(***************************************************************************)
Unbound == "unbound"

ModuleBindings ==
    [name \in {"in_t", "DataClass", "BlkioEntry", "Memory", "Blkio",
               "PidsStats", "LogEntry", "parse_blkio", "main", "parse_all",
               "analyze_timestamps", "get_ts_deltas", "remove_outliers",
               "find_deltas", "load_file", "get_all_files", "bootstrap"} |->
        IF name = "BlkioEntry" THEN "BlkioEntry@49" ELSE name]

Global(name) ==
    IF name \in DOMAIN ModuleBindings THEN ModuleBindings[name] ELSE Unbound

\* raw.split(" ") on a string: the tokens of a comma-free string; in a
\* string with commas the tokens around a comma stay glued into one token,
\* which is not a numeral
SplitSpace(val) ==
    IF Len(val.subs) = 1 THEN val.subs[1] ELSE <<"glued,tokens">>

\* int(tok) guarded as in in_t, for a token (tok.strip() leaves a token as
\* it is, a token holds no whitespace)
in_t_tok(tok) == in_t(Word(tok))

\* class BlkioEntry of lines 49-63: the cpu fields of a row.  Applied to a
\* string, row["cpu.usage.total"] is a str subscript by a str: TypeError.
PerCpuOf(g) ==
    IF g.exc # NoExc THEN g
    ELSE IF g.val.isNone THEN Raise("AttributeError")
    ELSE InOrder([i \in 1..Len(SplitSpace(g.val)) |->
                     in_t_tok(SplitSpace(g.val)[i])])

PerCpu(row) == Bind(Get(row, "cpu.usage.percpu"), PerCpuOf)

CpuRecord(all) ==
    IF all.exc # NoExc THEN all
    ELSE Ok([total |-> all.val[1], system_usage |-> all.val[2],
             user_usage |-> all.val[3], percpu |-> all.val[4],
             system_stat |-> all.val[5], user_stat |-> all.val[6],
             throttling_periods |-> all.val[7],
             throttled_periods |-> all.val[8],
             throttled_time |-> all.val[9]])

BlkioEntry(row) ==
    IF ~IsRow(row) THEN Raise("TypeError")
    ELSE Bind(InOrder([i \in 1..Len(CpuCols) |->
                         IF CpuCols[i] = "cpu.usage.percpu" THEN PerCpu(row)
                         ELSE in_t_at(row, CpuCols[i])]),
              CpuRecord)

\* class Memory: one counter per memory column, in the order of MemoryCols
Memory(row) ==
    InOrder([i \in 1..Len(MemoryCols) |-> in_t_at(row, MemoryCols[i])])

\* class PidsStats
PidsMax(g) ==
    IF g.exc # NoExc THEN g
    ELSE IF g.val = Word("max") THEN Ok(0)
    ELSE in_t(g.val)

PidsRecord(all) ==
    IF all.exc # NoExc THEN all
    ELSE Ok([current |-> all.val[1], max |-> all.val[2]])

PidsStats(row) ==
    Bind(InOrder(<<in_t_at(row, "pids.current"),
                   Bind(Get(row, "pids.max"), PidsMax)>>),
         PidsRecord)

\* "Total" not in entry
NoTotal(part) == \A i \in 1..Len(part) : part[i] \notin TotalToks

\* parse_blkio(raw): the sub-entries kept by the filter, in order, each
\* handed to whatever BlkioEntry names
RECURSIVE Filter3(_)
Filter3(parts) ==
    IF parts = <<>> THEN <<>>
    ELSE (IF Len(Head(parts)) = 3 /\ NoTotal(Head(parts))
          THEN <<Head(parts)>> ELSE <<>>) \o Filter3(Tail(parts))

BlkioEntries(kept) ==
    InOrder([i \in 1..Len(kept) |->
        IF Global("BlkioEntry") = Unbound THEN Raise("NameError")
        ELSE BlkioEntry(Str(<<kept[i]>>))])

parse_blkio(raw) ==
    IF raw.isNone THEN Raise("AttributeError")
    ELSE Bind(Filter3([i \in 1..Len(raw.subs) |-> Strip(raw.subs[i])]),
              BlkioEntries)

\* class Blkio: one entry list per blkio column, in the order of BlkioCols
BlkioCell(g) == IF g.exc # NoExc THEN g ELSE parse_blkio(g.val)

Blkio(row) ==
    InOrder([i \in 1..Len(BlkioCols) |->
        Bind(Get(row, BlkioCols[i]), BlkioCell)])

\* calling the object a global name is bound to
New(name, a) ==
    CASE Global(name) = Unbound -> Raise("NameError")
      [] Global(name) = "BlkioEntry@49" -> BlkioEntry(a)
      [] Global(name) = "Memory" -> Memory(a)
      [] Global(name) = "PidsStats" -> PidsStats(a)
      [] Global(name) = "Blkio" -> Blkio(a)

(***************************************************************************)
(* OrderedDict: the items in insertion order; assigning to a key that is   *)
(* present replaces the value and keeps the key's position.                *)
(***************************************************************************)
HasKey(d, k) == \E i \in 1..Len(d) : d[i].key = k

Item(d, k) == d[CHOOSE i \in 1..Len(d) : d[i].key = k].val

Put(d, k, v) ==
    IF HasKey(d, k)
    THEN [i \in 1..Len(d) |-> IF d[i].key = k THEN [key |-> k, val |-> v]
                              ELSE d[i]]
    ELSE Append(d, [key |-> k, val |-> v])

Keys(d) == [i \in 1..Len(d) |-> d[i].key]

\* LogEntry.__init__(row, preread, entries); preread is None or an int.
\* The fields are built in the order of the assignments.  The
\* back-reference pre is kept as the read of the entry it refers to.
NoPre == [isNone |-> TRUE, read |-> 0]

PreOf(preread, entries) ==
    IF ~preread.isNone /\ HasKey(entries, preread.read)
    THEN [isNone |-> FALSE, read |-> Item(entries, preread.read).read]
    ELSE NoPre

EntryRecord(all, preread, entries) ==
    IF all.exc # NoExc THEN all
    ELSE Ok([read |-> all.val[1], cpu |-> all.val[2],
             memory |-> all.val[3], pids |-> all.val[4],
             blkio |-> all.val[5], pre |-> PreOf(preread, entries)])

LogEntry(row, preread, entries) ==
    Bind(InOrder(<<in_t_at(row, "read"), New("CpuUsage", row),
                   New("Memory", row), New("PidsStats", row),
                   New("Blkio", row)>>),
         LAMBDA all : EntryRecord(all, preread, entries))

(***************************************************************************)
(* Files.  A file is the sequence of its lines; a line carries whether it  *)
(* starts with "---", whether the csv reader raises csv.Error on it (a     *)
(* NUL byte, say), and its fields as the csv reader splits them.           *)
(***************************************************************************)
Line(fields) == [delim |-> FALSE, bad |-> FALSE, fields |-> fields]
DelimLine == [delim |-> TRUE, bad |-> FALSE, fields |-> <<Word("---")>>]
BadLine == [delim |-> FALSE, bad |-> TRUE, fields |-> <<Word("abc")>>]
YamlLine == Line(<<Str(<<<<"Version:", "1">>>>)>>)
HeaderLine == Line([i \in 1..Len(Cols) |-> Word(Cols[i])])

\* a full data line: the read, one cell for every plain counter, the
\* per-core cell, one cell for every blkio column, pids.current, pids.max
DataLine(read, num, percpu, blkio, pidsmax) ==
    Line([i \in 1..Len(Cols) |->
        CASE Cols[i] = "read" -> read
          [] Cols[i] = "cpu.usage.percpu" -> percpu
          [] Cols[i] = "pids.max" -> pidsmax
          [] (\E j \in 1..Len(BlkioCols) : BlkioCols[j] = Cols[i]) -> blkio
          [] OTHER -> num])

\* Loader(yaml_str).get_data(): None for an empty document, else the
\* decoded document, kept as the fields of its lines
YamlLoad(yaml_lines) ==
    IF yaml_lines = <<>> THEN None
    ELSE [isNone |-> FALSE,
          subs |-> [i \in 1..Len(yaml_lines) |-> yaml_lines[i].fields]]

NoRead == [isNone |-> TRUE, read |-> 0]

RECURSIVE RowLoop(_, _, _, _)

\* the rest of an iteration, once entry = LogEntry(...) has been evaluated:
\* an exception of LogEntry is no csv.Error and leaves load_file
RowLoopWith(entry, fieldnames, rows, entries) ==
    IF entry.exc # NoExc THEN entry
    ELSE RowLoop(fieldnames, Tail(rows),
                 Put(entries, entry.val.read, entry.val),
                 [isNone |-> FALSE, read |-> entry.val.read])

\* the for loop of load_file over the rows left in csv_reader, inside the
\* try: csv.Error ends the loop and is printed
RowLoop(fieldnames, rows, entries, preread) ==
    IF rows = <<>> THEN Ok([entries |-> entries, printed |-> FALSE])
    ELSE IF Head(rows).bad THEN Ok([entries |-> entries, printed |-> TRUE])
    ELSE Bind(LogEntry(DictRow(fieldnames, Head(rows).fields),
                       preread, entries),
              LAMBDA entry : RowLoopWith(entry, fieldnames, rows, entries))

\* the return of load_file after the loop
Loaded(loop, yaml_lines) ==
    IF loop.exc # NoExc THEN loop
    ELSE Ok([entries |-> loop.val.entries,
             metadata |-> YamlLoad(yaml_lines),
             printed |-> loop.val.printed])

\* load_file(filename), on the lines of the file.  StopIteration comes, in
\* this order, from next(csvfile) on an empty file, from peek() when no
\* later line starts with "---", and from next(csv_reader) when the csv
\* section has no line after the one DictReader takes as field names.
load_file(lines) ==
    IF lines = <<>> THEN Raise("StopIteration")
    ELSE
    LET rest == Tail(lines)
        delims == {i \in 1..Len(rest) : rest[i].delim}
        d == CHOOSE i \in delims : \A j \in delims : i <= j
        yaml_lines == SubSeq(rest, 1, d - 1)
        body == SubSeq(rest, d + 1, Len(rest))
    IN IF delims = {} THEN Raise("StopIteration")
       ELSE IF body = <<>> THEN Raise("StopIteration")
       ELSE IF body[1].bad THEN Raise("csv.Error")
       ELSE IF Len(body) = 1 THEN Raise("StopIteration")
       ELSE IF body[2].bad THEN Raise("csv.Error")
       ELSE Bind(RowLoop(body[1].fields, SubSeq(body, 3, Len(body)),
                         <<>>, NoRead),
                 LAMBDA loop : Loaded(loop, yaml_lines))

\* the data lines and files explored
Row100 == DataLine(Word("100"), Word("5"), Str(<<<<"1", "2">>>>), EmptyStr,
                   Word("max"))
Row200 == DataLine(Word("200"), Word("5"), Str(<<<<"1", "2">>>>), EmptyStr,
                   Word("128"))
Row100b == DataLine(Word("100"), Word("1"), Str(<<<<"1", "2">>>>), EmptyStr,
                    Word("128"))
RowJunk == DataLine(Word("abc"), Word("5"), Str(<<<<"1", "2">>>>), EmptyStr,
                    Word("max"))

DataLines == {Row100, Row200, Row100b, RowJunk, BadLine}

\* two delimiters, metadata, the header row and its duplicate (the layout
\* of the documented input format), and with a single header row
Prefix2H == <<DelimLine, YamlLine, DelimLine, HeaderLine, HeaderLine>>
Prefix1H == <<DelimLine, YamlLine, DelimLine, HeaderLine>>
PrefixNoMeta == <<DelimLine, DelimLine, HeaderLine, HeaderLine>>

Truncated == {<<>>, <<DelimLine>>, <<DelimLine, YamlLine>>,
              <<DelimLine, YamlLine, DelimLine>>}

LoadFiles ==
    Truncated \cup
    {p \o rows : p \in {Prefix2H, Prefix1H, PrefixNoMeta},
                 rows \in SeqsUpTo(DataLines, MaxRows)}

InitLoad ==
    /\ pc = "load_start"
    /\ arg \in LoadFiles
    /\ res = <<>>
    /\ BatchIdle

LoadFile ==
    /\ pc = "load_start"
    /\ res' = load_file(arg)
    /\ pc' = "load_done"
    /\ UNCHANGED arg
    /\ BatchUnchanged

NextLoad == LoadFile

SpecLoad == InitLoad /\ [][NextLoad]_vars

\* the layout of the documented input format, and the data lines of a file
\* of that layout
HasPrefix(f, p) == Len(f) >= Len(p) /\ SubSeq(f, 1, Len(p)) = p

Layout2H(f) == HasPrefix(f, Prefix2H) \/ HasPrefix(f, PrefixNoMeta)

DataRows(f) ==
    IF HasPrefix(f, Prefix2H) THEN SubSeq(f, Len(Prefix2H) + 1, Len(f))
    ELSE SubSeq(f, Len(PrefixNoMeta) + 1, Len(f))

GoodLines == {Row100, Row200, Row100b}

ReadOf(line) == NumVal(line.fields[1].subs[1][1])

\* a file of the documented layout all of whose data lines decode
ValidFile(f) ==
    /\ Layout2H(f)
    /\ \A k \in 1..Len(DataRows(f)) : DataRows(f)[k] \in GoodLines

\* C2: a data row that fails to decode does not stop load_file: the later
\* rows are still parsed and inserted, and load_file returns the sequence
\* and the metadata.
Claim_C2 ==
    (/\ pc = "load_done"
     /\ Layout2H(arg)
     /\ \E k \in 1..Len(DataRows(arg)) : DataRows(arg)[k] = RowJunk)
    => /\ res.exc = NoExc
       /\ \A k \in 1..Len(DataRows(arg)) :
             DataRows(arg)[k] \in GoodLines
             => HasKey(res.val.entries, ReadOf(DataRows(arg)[k]))

\* C3: for a valid file the keys of the returned sequence, in iteration
\* order, are the reads of the data rows in file order, whatever the
\* timestamps are (repeated ones included).
Claim_C3 ==
    (pc = "load_done" /\ ValidFile(arg))
    => /\ res.exc = NoExc
       /\ Keys(res.val.entries)
            = [k \in 1..Len(DataRows(arg)) |-> ReadOf(DataRows(arg)[k])]

\* C4: in a valid file whose rows chain (each row follows the read before
\* it), the first sample has no back-reference and the sample of row k > 1
\* refers to the sample of row k-1.
Claim_C4 ==
    (/\ pc = "load_done"
     /\ ValidFile(arg)
     /\ \A j, k \in 1..Len(DataRows(arg)) :
           j # k => ReadOf(DataRows(arg)[j]) # ReadOf(DataRows(arg)[k]))
    => /\ res.exc = NoExc
       /\ Len(res.val.entries) = Len(DataRows(arg))
       /\ \A k \in 1..Len(res.val.entries) :
             res.val.entries[k].val.pre =
                IF k = 1 THEN NoPre
                ELSE [isNone |-> FALSE,
                      read |-> ReadOf(DataRows(arg)[k - 1])]

\* C10: two delimiter lines, a metadata block and the column-header row
\* with nothing after it: load_file returns an empty sequence and the
\* metadata.
Claim_C10 ==
    (pc = "load_done" /\ arg = Prefix1H)
    => /\ res.exc = NoExc
       /\ res.val.entries = <<>>
       /\ res.val.metadata = YamlLoad(<<YamlLine>>)

(***************************************************************************)
(* parse_blkio on blkio cells.                                             *)
(***************************************************************************)
SubEntries == {<<"8:0", "Read", "100">>, <<"8:0", "Total", "300">>,
               <<"Total", "300">>, <<"8:0", "", "Read", "5">>,
               <<"", "8:0", "Write", "5">>, <<"8:0", "SubTotal", "5">>,
               <<"">>}

InitBlkio ==
    /\ pc = "blkio_start"
    /\ \E subs \in SeqsUpTo(SubEntries, MaxSub) \ {<<>>} : arg = Str(subs)
    /\ res = <<>>
    /\ BatchIdle

ParseBlkio ==
    /\ pc = "blkio_start"
    /\ res' = parse_blkio(arg)
    /\ pc' = "blkio_done"
    /\ UNCHANGED arg
    /\ BatchUnchanged

NextBlkio == ParseBlkio

SpecBlkio == InitBlkio /\ [][NextBlkio]_vars

\* the whitespace-separated tokens of a sub-entry
WsTokens(part) == SelectSeq(part, LAMBDA t : t # "")

Qualifies(part) ==
    Len(WsTokens(part)) = 3 /\ WsTokens(part)[2] # "Total"

\* C6: parse_blkio returns one entry {major, minor, operation, value} for
\* each sub-entry of exactly 3 whitespace-separated tokens whose operation
\* is not Total, in order; the other sub-entries are left out and nothing
\* fails.
Claim_C6 ==
    pc = "blkio_done" =>
        LET want == SelectSeq(arg.subs, Qualifies)
        IN /\ res.exc = NoExc
           /\ Len(res.val) = Len(want)
           /\ \A k \in 1..Len(want) :
                 /\ "op" \in DOMAIN res.val[k]
                 /\ res.val[k].op = WsTokens(want[k])[2]
                 /\ res.val[k].value = NumVal(WsTokens(want[k])[3])

(***************************************************************************)
(* The record constructors on one row.                                     *)
(***************************************************************************)
ReadCells == {Word("100"), EmptyStr, Word("abc")}
NumCells == {Word("5"), EmptyStr, Word("abc")}
PerCpuCells == {Str(<<<<"1", "2">>>>), EmptyStr, Str(<<<<"1", "", "2">>>>)}
BlkioCells == {EmptyStr, Str(<<<<"8:0", "Read", "100">>>>),
               Str(<<<<"Total", "300">>>>)}
PidsMaxCells == {Word("max"), Word("128")}

\* the lengths a line is cut to: full, without pids, without blkio, without
\* memory, without the per-core cell, the read alone
CutLens == {Len(Cols), 39, 31, 10, 4, 1}

DecodeRows ==
    {DictRow(HeaderLine.fields,
             SubSeq(DataLine(r, n, c, b, m).fields, 1, len)) :
        r \in ReadCells, n \in NumCells, c \in PerCpuCells,
        b \in BlkioCells, m \in PidsMaxCells, len \in CutLens}

InitDecode ==
    /\ pc = "decode_start"
    /\ arg \in DecodeRows
    /\ res = <<>>
    /\ BatchIdle

NewLogEntry ==
    /\ pc = "decode_start"
    /\ res' = LogEntry(arg, NoRead, <<>>)
    /\ pc' = "done_LogEntry"
    /\ UNCHANGED arg
    /\ BatchUnchanged

NewCpu ==
    /\ pc = "decode_start"
    /\ res' = New("BlkioEntry", arg)
    /\ pc' = "done_BlkioEntry"
    /\ UNCHANGED arg
    /\ BatchUnchanged

NewMemory ==
    /\ pc = "decode_start"
    /\ res' = New("Memory", arg)
    /\ pc' = "done_Memory"
    /\ UNCHANGED arg
    /\ BatchUnchanged

NewPidsStats ==
    /\ pc = "decode_start"
    /\ res' = New("PidsStats", arg)
    /\ pc' = "done_PidsStats"
    /\ UNCHANGED arg
    /\ BatchUnchanged

NewBlkio ==
    /\ pc = "decode_start"
    /\ res' = New("Blkio", arg)
    /\ pc' = "done_Blkio"
    /\ UNCHANGED arg
    /\ BatchUnchanged

NextDecode ==
    \/ NewLogEntry
    \/ NewCpu
    \/ NewMemory
    \/ NewPidsStats
    \/ NewBlkio

SpecDecode == InitDecode /\ [][NextDecode]_vars

\* a numeric cell that is missing, empty or a numeral
Blank(v) == v.isNone \/ v = EmptyStr

NumCellOk(v) == Blank(v) \/ \E n \in Numerals : v = Word(n)

\* a row none of whose numeric cells holds junk
NumericOk(row) ==
    /\ \A i \in 1..Len(Cols) :
          Cols[i] \in ({"read", "pids.current"}
                       \cup {CpuCols[j] : j \in 1..Len(CpuCols)}
                       \cup {MemoryCols[j] : j \in 1..Len(MemoryCols)})
                      \ {"cpu.usage.percpu"}
          => NumCellOk(Get(row, Cols[i]).val)
    /\ LET c == Get(row, "cpu.usage.percpu").val
       IN Blank(c) \/ \A i \in 1..Len(c.subs[1]) :
                          c.subs[1][i] \in Numerals \cup {""}
    /\ LET m == Get(row, "pids.max").val
       IN NumCellOk(m) \/ m = Word("max")

CpuCounter(cpu, i) ==
    CASE i = 1 -> cpu.total
      [] i = 2 -> cpu.system_usage
      [] i = 3 -> cpu.user_usage
      [] i = 5 -> cpu.system_stat
      [] i = 6 -> cpu.user_stat
      [] i = 7 -> cpu.throttling_periods
      [] i = 8 -> cpu.throttled_periods
      [] i = 9 -> cpu.throttled_time

\* C7: on a row whose numeric cells are numerals, empty or missing, the
\* sample is built, and every numeric field whose cell is empty or missing
\* is 0.
Claim_C7 ==
    (pc = "done_LogEntry" /\ NumericOk(arg))
    => /\ res.exc = NoExc
       /\ (Blank(Get(arg, "read").val) => res.val.read = 0)
       /\ \A i \in (1..Len(CpuCols)) \ {4} :
             Blank(Get(arg, CpuCols[i]).val)
             => CpuCounter(res.val.cpu, i) = 0
       /\ \A i \in 1..Len(MemoryCols) :
             Blank(Get(arg, MemoryCols[i]).val) => res.val.memory[i] = 0
       /\ (Blank(Get(arg, "pids.current").val)
             => res.val.pids.current = 0)
       /\ (Blank(Get(arg, "pids.max").val) => res.val.pids.max = 0)

(***************************************************************************)
(* The batch run: main, parse_all and analyze_timestamps.  A file path is  *)
(* the position of the file in the list get_all_files returned.            *)
(***************************************************************************)
OneDelim == <<DelimLine, YamlLine>>

BatchFiles ==
    {OneDelim, Prefix1H} \cup
    {p \o rows : p \in {Prefix2H, PrefixNoMeta},
                 rows \in SeqsUpTo({Row100, BadLine}, 1)}

InitBatch ==
    /\ pc = "parse_all"
    /\ files \in SeqsUpTo(BatchFiles, MaxFiles)
    /\ idx = 0
    /\ parsed = <<>>
    /\ analyzed = <<>>
    /\ exc = NoExc
    /\ arg = <<>>
    /\ res = <<>>

\* one iteration of the loop of parse_all; an exception of load_file
\* leaves parse_all and main
ParseAllStep ==
    /\ pc = "parse_all"
    /\ idx < Len(files)
    /\ LET log_data == load_file(files[idx + 1])
       IN IF log_data.exc # NoExc
          THEN /\ pc' = "crashed"
               /\ exc' = log_data.exc
               /\ UNCHANGED <<idx, parsed>>
          ELSE /\ parsed' = Append(parsed, [file |-> idx + 1,
                                            data |-> log_data.val])
               /\ idx' = idx + 1
               /\ UNCHANGED <<pc, exc>>
    /\ UNCHANGED <<files, analyzed, arg, res>>

ParseAllReturnEarly ==
    /\ pc = "parse_all"
    /\ idx >= 1 \/ idx = Len(files)
    /\ pc' = "analyze"
    /\ idx' = 0
    /\ UNCHANGED <<files, parsed, analyzed, exc, arg, res>>

\* parse_all returns; main begins its loop over data.items()
ParseAllReturn ==
    /\ pc = "parse_all"
    /\ idx = Len(files)
    /\ pc' = "analyze"
    /\ idx' = 0
    /\ UNCHANGED <<files, parsed, analyzed, exc, arg, res>>

\* one iteration of the loop of main: analyze_timestamps(entries)
AnalyzeStep ==
    /\ pc = "analyze"
    /\ idx < Len(parsed)
    /\ analyzed' = Append(analyzed,
            [file |-> parsed[idx + 1].file,
             deltas |-> get_ts_deltas(Keys(parsed[idx + 1].data.entries))])
    /\ idx' = idx + 1
    /\ UNCHANGED <<pc, files, parsed, exc, arg, res>>

MainReturn ==
    /\ pc = "analyze"
    /\ idx = Len(parsed)
    /\ pc' = "exited"
    /\ UNCHANGED <<files, idx, parsed, analyzed, exc, arg, res>>

NextBatch ==
    \/ ParseAllStep
    \/ ParseAllReturn
    \/ AnalyzeStep
    \/ MainReturn

SpecBatch == InitBatch /\ [][NextBatch]_vars

Analyzed(i) == \E k \in 1..Len(analyzed) : analyzed[k].file = i

\* C1: a file with a single delimiter line fails alone, with
\* FormatError(MissingHeaderTerminator): when the run is over every other
\* file of the list has been parsed and analyzed.
Claim_C1 ==
    pc \in {"exited", "crashed"} =>
        \A i \in 1..Len(files) :
            files[i] = OneDelim =>
                /\ exc \in {NoExc, "FormatError"}
                /\ \A j \in (1..Len(files)) \ {i} :
                      load_file(files[j]).exc = NoExc => Analyzed(j)

\* C9 as stated: a file is analyzed before the next file is parsed, so at
\* most one file is parsed and not yet analyzed.
Claim_C9 == Len(parsed) - Len(analyzed) <= 1

\* C9, amended: main runs in two phases.  Files are parsed one at a time in
\* list order, no analysis starts before every file of the list has been
\* parsed, and the analyses then run one at a time in the same order.
Thm_C9 ==
    /\ \A k \in 1..Len(parsed) : parsed[k].file = k
    /\ \A k \in 1..Len(analyzed) : analyzed[k].file = k
    /\ Len(analyzed) <= Len(parsed)
    /\ (analyzed # <<>> \/ pc \in {"analyze", "exited"})
          => Len(parsed) = Len(files)

\* two files were parsed and the analysis of the first one has run
Wit_C9 ==
    /\ Len(files) = 2
    /\ Len(parsed) = 2
    /\ Len(analyzed) = 1
    /\ pc = "analyze"

====
